---- MODULE Spec2Model ----
(***************************************************************************)
(* Model of crates/project/src/lsp_store/lsp_ext_command.rs: the three     *)
(* language-server extension commands ExpandMacro, OpenDocs and            *)
(* SwitchSourceHeader and the translations of the LspCommand trait they    *)
(* implement (to_lsp, response_from_lsp, to_proto, from_proto,             *)
(* response_to_proto, response_from_proto, buffer_id_from_proto).          *)
(*                                                                         *)
(* A command travels one of two paths.  On the host path the caller's      *)
(* command is turned into a server request by to_lsp and the reply is      *)
(* turned into the response by response_from_lsp.  On the guest path the   *)
(* command is turned into a peer request by to_proto, the host rebuilds    *)
(* it with from_proto, runs the host path, sends the response back with    *)
(* response_to_proto, and the guest reads it with response_from_proto.     *)
(*                                                                         *)
(* The buffer, its anchors and the wire encoding of anchors live in other  *)
(* crates; they are modelled here as far as the commands use them.         *)
(***************************************************************************)
EXTENDS Integers, Sequences, FiniteSets, TLC

\* ------------------------------------------------------------------ bounds
\* Number of text insertions the buffer receives while commands are in flight.
MaxEdits == 1
\* Number of commands in flight at once in SpecConcurrent.
NumCmds == 2

\* ------------------------------------------------------------ basic values
\* Option<T>
None == [some |-> FALSE]
Some(v) == [some |-> TRUE, val |-> v]

\* anyhow::Result<T>, plus the outcome of a panic (unwrap on Err, or a panic
\* inside a callee), which unwinds out of the translation instead of returning.
Ok(v) == [tag |-> "Ok", val |-> v]
Err(e) == [tag |-> "Err", err |-> e]
Panic(where) == [tag |-> "Panic", at |-> where]

Min(a, b) == IF a < b THEN a ELSE b

\* ------------------------------------------------------------------ buffer
\* The text of a buffer is a sequence of characters.  Every character keeps
\* the identity (timestamp) of the insertion that created it, which is what
\* an anchor refers to.  All characters are one UTF-16 code unit wide.
Char(i, c) == [id |-> i, ch |-> c]

\* The buffers a session may start with.  BufferId wraps a NonZeroU64.
InitialBuffers ==
    { [ remote_id |-> 1, text |-> << Char(1, "f"), Char(2, "n") >> ],
      [ remote_id |-> 2,
        text |-> << Char(1, "f"), Char(2, "\n"), Char(3, "m") >> ] }

\* Strings a single edit inserts.
InsertTexts == { << "x", "y" >>, << "\n" >> }

BufferIds == { b.remote_id : b \in InitialBuffers }

\* Project ids are plain u64 values; 0 is a legal project id.
ProjectIds == {0, 1}

NewlinesUpTo(text, o) == { i \in 1..o : text[i].ch = "\n" }

\* offset -> PointUtf16
OffsetToPoint(text, o) ==
    LET nl == NewlinesUpTo(text, o)
        start == IF nl = {} THEN 0 ELSE CHOOSE i \in nl : \A j \in nl : j <= i
    IN  [row |-> Cardinality(nl), column |-> o - start]

ValidPoints(text) == { OffsetToPoint(text, o) : o \in 0..Len(text) }

\* PointUtf16 -> offset, clipping a point that lies beyond the end of its line
\* or beyond the last line.
PointToOffset(text, p) ==
    LET nl == NewlinesUpTo(text, Len(text))
    IN  IF p.row > Cardinality(nl) THEN Len(text)
        ELSE LET start == IF p.row = 0 THEN 0
                          ELSE CHOOSE i \in nl :
                                   Cardinality({ j \in nl : j <= i }) = p.row
                 after == { i \in nl : i > start }
                 end == IF after = {} THEN Len(text)
                        ELSE (CHOOSE i \in after : \A j \in after : i <= j) - 1
             IN  Min(start + p.column, end)

\* Buffer::edit restricted to insertions: insert the string s at offset at.
\* The new characters get fresh timestamps.
InsertAt(text, at, s) ==
    LET fresh == [ k \in 1..Len(s) |-> Char(Len(text) + k, s[k]) ]
    IN  SubSeq(text, 1, at) \o fresh \o SubSeq(text, at + 1, Len(text))

\* Buffer::anchor_before: the anchor sticks to the character on its left
\* (Bias::Left); offset 0 is the start of the buffer (Anchor::MIN).
anchor_before(buffer, p) ==
    LET o == PointToOffset(buffer.text, p)
    IN  [ timestamp |-> IF o = 0 THEN 0 ELSE buffer.text[o].id,
          bias |-> "Left",
          buffer_id |-> buffer.remote_id ]

\* Buffer::anchor_after: the anchor sticks to the character on its right
\* (Bias::Right); the end of the buffer is Anchor::MAX, timestamp -1 here.
anchor_after(buffer, p) ==
    LET o == PointToOffset(buffer.text, p)
    IN  [ timestamp |-> IF o = Len(buffer.text) THEN 0 - 1
                        ELSE buffer.text[o + 1].id,
          bias |-> "Right",
          buffer_id |-> buffer.remote_id ]

\* Whether the buffer can resolve the anchor: it is one of its own, and the
\* insertion it names is part of the buffer's history.
can_resolve(buffer, anchor) ==
    /\ anchor.buffer_id = buffer.remote_id
    /\ \/ anchor.bias = "Left" /\ anchor.timestamp = 0
       \/ anchor.bias = "Right" /\ anchor.timestamp = 0 - 1
       \/ \E i \in 1..Len(buffer.text) : buffer.text[i].id = anchor.timestamp

\* Offset of a resolvable anchor in the current text.
AnchorOffset(buffer, anchor) ==
    IF anchor.bias = "Left" /\ anchor.timestamp = 0 THEN 0
    ELSE IF anchor.bias = "Right" /\ anchor.timestamp = 0 - 1
         THEN Len(buffer.text)
    ELSE LET i == CHOOSE k \in 1..Len(buffer.text) :
                      buffer.text[k].id = anchor.timestamp
         IN  IF anchor.bias = "Left" THEN i ELSE i - 1

\* Anchor::to_point_utf16.  It returns a PointUtf16, not a Result: for an
\* anchor the buffer cannot resolve, the callee either panics or yields some
\* point of the buffer (the last one stands for them here).
to_point_utf16(anchor, buffer) ==
    IF can_resolve(buffer, anchor)
    THEN { Ok(OffsetToPoint(buffer.text, AnchorOffset(buffer, anchor))) }
    ELSE { Panic("to_point_utf16"),
           Ok(OffsetToPoint(buffer.text, Len(buffer.text))) }

\* ------------------------------------------------------- anchors on the wire
\* language::proto::serialize_anchor: proto::Anchor carries the bias as the
\* number of the proto::Bias enum and the buffer id as a plain u64.
serialize_anchor(anchor) ==
    [ timestamp |-> anchor.timestamp,
      bias |-> IF anchor.bias = "Left" THEN 0 ELSE 1,
      buffer_id |-> anchor.buffer_id ]

\* language::proto::deserialize_anchor: None when the bias is no member of
\* proto::Bias or the buffer id is not a BufferId (zero).
deserialize_anchor(wire) ==
    IF wire.bias \notin {0, 1} \/ wire.buffer_id = 0 THEN None
    ELSE Some([ timestamp |-> wire.timestamp,
                bias |-> IF wire.bias = 0 THEN "Left" ELSE "Right",
                buffer_id |-> wire.buffer_id ])

\* language::point_to_lsp: PointUtf16 {row, column} -> lsp::Position
\* {line, character}.
point_to_lsp(p) == [ line |-> p.row, character |-> p.column ]

\* BufferId::new: a BufferId is a non-zero u64.
BufferId_new(id) == IF id = 0 THEN Err("buffer id cannot be 0") ELSE Ok(id)

\* ------------------------------------------------------------------- paths
\* A file path is absolute or relative.  lsp::Url::from_file_path accepts only
\* absolute paths.
Paths == { [absolute |-> TRUE, file |-> "main.rs"],
           [absolute |-> FALSE, file |-> "main.rs"] }

Url_from_file_path(path) ==
    IF path.absolute THEN Ok([scheme |-> "file", path |-> path.file])
    ELSE Err("()")

\* crate::make_text_document_identifier: the failure of the URL conversion is
\* returned as an error.
make_text_document_identifier(path) ==
    LET url == Url_from_file_path(path)
    IN  IF url.tag = "Ok" THEN Ok([uri |-> url.val])
        ELSE Err("InvalidPath")

\* ---------------------------------------------------------------- commands
Kinds == {"ExpandMacro", "OpenDocs", "SwitchSourceHeader"}
HasPosition(kind) == kind \in {"ExpandMacro", "OpenDocs"}

\* struct ExpandMacro { position: PointUtf16 }
ExpandMacro(p) == [kind |-> "ExpandMacro", position |-> p]
\* struct OpenDocs { position: PointUtf16 }
OpenDocs(p) == [kind |-> "OpenDocs", position |-> p]
\* struct SwitchSourceHeader;
SwitchSourceHeader == [kind |-> "SwitchSourceHeader"]

\* The commands a caller can construct against a text.
Commands(text) ==
    { ExpandMacro(p) : p \in ValidPoints(text) }
        \cup { OpenDocs(p) : p \in ValidPoints(text) }
        \cup { SwitchSourceHeader }

\* ExpandedMacro { name, expansion }, its Default and is_empty
ExpandedMacro(n, e) == [type |-> "ExpandedMacro", name |-> n, expansion |-> e]
ExpandedMacro_default == ExpandedMacro("", "")
ExpandedMacro_is_empty(r) == r.name = "" /\ r.expansion = ""

\* DocsUrls { web, local }, its Default and is_empty
DocsUrls(w, l) == [type |-> "DocsUrls", web |-> w, local |-> l]
DocsUrls_default == DocsUrls(None, None)
DocsUrls_is_empty(r) == ~r.web.some /\ ~r.local.some

\* SwitchSourceHeaderResult(String) and its Default
SwitchSourceHeaderResult(s) == [type |-> "SwitchSourceHeaderResult", f0 |-> s]
SwitchSourceHeaderResult_default == SwitchSourceHeaderResult("")

\* What a language server may answer: Option<Result> of the request type.
Replies(kind) ==
    CASE kind = "ExpandMacro" ->
            {None} \cup { Some(ExpandedMacro(n, e)) :
                            n \in {"", "main"}, e \in {"", "fn main() { }"} }
      [] kind = "OpenDocs" ->
            {None} \cup { Some(DocsUrls(w, l)) :
                            w \in {None, Some("https://docs.rs/x")},
                            l \in {None, Some("file:///doc/x")} }
      [] kind = "SwitchSourceHeader" ->
            {None} \cup { Some(SwitchSourceHeaderResult(s)) : s \in {"", "foo.h"} }

\* ----------------------------------------------------------------- to_lsp
\* Mutation: line and character exchanged in the request.
ExpandMacro_to_lsp_swapped(self, path) ==
    LET text_document == make_text_document_identifier(path)
    IN  IF text_document.tag # "Ok" THEN text_document
        ELSE Ok([ type |-> "ExpandMacroParams",
                  text_document |-> text_document.val,
                  position |-> [ line |-> self.position.column,
                                 character |-> self.position.row ] ])

ExpandMacro_to_lsp(self, path) ==
    LET text_document == make_text_document_identifier(path)
    IN  IF text_document.tag # "Ok" THEN text_document
        ELSE Ok([ type |-> "ExpandMacroParams",
                  text_document |-> text_document.val,
                  position |-> point_to_lsp(self.position) ])

\* The URL conversion is unwrapped: an Err panics.
OpenDocs_to_lsp(self, path) ==
    LET uri == Url_from_file_path(path)
    IN  IF uri.tag # "Ok" THEN Panic("to_lsp")
        ELSE Ok([ type |-> "OpenDocsParams",
                  text_document |-> [uri |-> uri.val],
                  position |-> point_to_lsp(self.position) ])

SwitchSourceHeader_to_lsp(self, path) ==
    LET text_document == make_text_document_identifier(path)
    IN  IF text_document.tag # "Ok" THEN text_document
        ELSE Ok([ type |-> "SwitchSourceHeaderParams",
                  f0 |-> text_document.val ])

to_lsp(self, path) ==
    CASE self.kind = "ExpandMacro" -> ExpandMacro_to_lsp(self, path)
      [] self.kind = "OpenDocs" -> OpenDocs_to_lsp(self, path)
      [] self.kind = "SwitchSourceHeader" -> SwitchSourceHeader_to_lsp(self, path)

\* ------------------------------------------------------- response_from_lsp
\* Mutation: an absent reply becomes a placeholder instead of the default.
ExpandMacro_response_from_lsp_placeholder(message) ==
    Ok(IF message.some
       THEN ExpandedMacro(message.val.name, message.val.expansion)
       ELSE ExpandedMacro("", "<no expansion>"))

ExpandMacro_response_from_lsp(message) ==
    Ok(IF message.some
       THEN ExpandedMacro(message.val.name, message.val.expansion)
       ELSE ExpandedMacro_default)

OpenDocs_response_from_lsp(message) ==
    Ok(IF message.some
       THEN DocsUrls(message.val.web, message.val.local)
       ELSE DocsUrls_default)

SwitchSourceHeader_response_from_lsp(message) ==
    Ok(IF message.some
       THEN SwitchSourceHeaderResult(message.val.f0)
       ELSE SwitchSourceHeaderResult_default)

response_from_lsp(kind, message) ==
    CASE kind = "ExpandMacro" -> ExpandMacro_response_from_lsp(message)
      [] kind = "OpenDocs" -> OpenDocs_response_from_lsp(message)
      [] kind = "SwitchSourceHeader" -> SwitchSourceHeader_response_from_lsp(message)

\* ---------------------------------------------------------------- to_proto
\* Mutation: the position is anchored with anchor_after.
ExpandMacro_to_proto_after(self, project_id, buffer) ==
    [ type |-> "LspExtExpandMacro",
      project_id |-> project_id,
      buffer_id |-> buffer.remote_id,
      position |-> Some(serialize_anchor(anchor_after(buffer, self.position))) ]

ExpandMacro_to_proto(self, project_id, buffer) ==
    [ type |-> "LspExtExpandMacro",
      project_id |-> project_id,
      buffer_id |-> buffer.remote_id,
      position |-> Some(serialize_anchor(anchor_before(buffer, self.position))) ]

\* Mutation: the start of the line is anchored, the column is lost.
OpenDocs_to_proto_line_start(self, project_id, buffer) ==
    [ type |-> "LspExtOpenDocs",
      project_id |-> project_id,
      buffer_id |-> buffer.remote_id,
      position |-> Some(serialize_anchor(
          anchor_before(buffer, [row |-> self.position.row, column |-> 0]))) ]

OpenDocs_to_proto(self, project_id, buffer) ==
    [ type |-> "LspExtOpenDocs",
      project_id |-> project_id,
      buffer_id |-> buffer.remote_id,
      position |-> Some(serialize_anchor(anchor_before(buffer, self.position))) ]

\* Mutation: project id and buffer id exchanged.
SwitchSourceHeader_to_proto_swapped(self, project_id, buffer) ==
    [ type |-> "LspExtSwitchSourceHeader",
      project_id |-> buffer.remote_id,
      buffer_id |-> project_id ]

SwitchSourceHeader_to_proto(self, project_id, buffer) ==
    [ type |-> "LspExtSwitchSourceHeader",
      project_id |-> project_id,
      buffer_id |-> buffer.remote_id ]

to_proto(self, project_id, buffer) ==
    CASE self.kind = "ExpandMacro" -> ExpandMacro_to_proto(self, project_id, buffer)
      [] self.kind = "OpenDocs" -> OpenDocs_to_proto(self, project_id, buffer)
      [] self.kind = "SwitchSourceHeader" ->
            SwitchSourceHeader_to_proto(self, project_id, buffer)

\* -------------------------------------------------------------- from_proto
\* The set of outcomes: Ok(command), Err("invalid position"), or the panic of
\* the anchor resolution.
ExpandMacro_from_proto(message, buffer) ==
    LET position == IF message.position.some
                    THEN deserialize_anchor(message.position.val)
                    ELSE None
    IN  IF ~position.some THEN { Err("invalid position") }
        ELSE { IF r.tag = "Ok" THEN Ok(ExpandMacro(r.val)) ELSE r :
                 r \in to_point_utf16(position.val, buffer) }

OpenDocs_from_proto(message, buffer) ==
    LET position == IF message.position.some
                    THEN deserialize_anchor(message.position.val)
                    ELSE None
    IN  IF ~position.some THEN { Err("invalid position") }
        ELSE { IF r.tag = "Ok" THEN Ok(OpenDocs(r.val)) ELSE r :
                 r \in to_point_utf16(position.val, buffer) }

\* Mutation: the request is expected to carry a position, as the other two do.
SwitchSourceHeader_from_proto_positional(message, buffer) ==
    IF "position" \in DOMAIN message THEN { Ok(SwitchSourceHeader) }
    ELSE { Err("invalid position") }

SwitchSourceHeader_from_proto(message, buffer) == { Ok(SwitchSourceHeader) }

from_proto(message, buffer) ==
    CASE message.type = "LspExtExpandMacro" -> ExpandMacro_from_proto(message, buffer)
      [] message.type = "LspExtOpenDocs" -> OpenDocs_from_proto(message, buffer)
      [] message.type = "LspExtSwitchSourceHeader" ->
            SwitchSourceHeader_from_proto(message, buffer)

\* ------------------------------------------------------ buffer_id_from_proto
\* The same body in the three impls: BufferId::new(message.buffer_id).
buffer_id_from_proto(message) == BufferId_new(message.buffer_id)

\* ------------------------------------------------------- response_to_proto
ExpandMacro_response_to_proto(response) ==
    [ type |-> "LspExtExpandMacroResponse",
      name |-> response.name,
      expansion |-> response.expansion ]

\* Mutation: web and local exchanged in the peer response.
OpenDocs_response_to_proto_swapped(response) ==
    [ type |-> "LspExtOpenDocsResponse",
      web |-> response.local,
      local |-> response.web ]

OpenDocs_response_to_proto(response) ==
    [ type |-> "LspExtOpenDocsResponse",
      web |-> response.web,
      local |-> response.local ]

SwitchSourceHeader_response_to_proto(response) ==
    [ type |-> "LspExtSwitchSourceHeaderResponse",
      target_file |-> response.f0 ]

response_to_proto(kind, response) ==
    CASE kind = "ExpandMacro" -> ExpandMacro_response_to_proto(response)
      [] kind = "OpenDocs" -> OpenDocs_response_to_proto(response)
      [] kind = "SwitchSourceHeader" -> SwitchSourceHeader_response_to_proto(response)

\* ----------------------------------------------------- response_from_proto
ExpandMacro_response_from_proto(message) ==
    Ok(ExpandedMacro(message.name, message.expansion))

OpenDocs_response_from_proto(message) ==
    Ok(DocsUrls(message.web, message.local))

SwitchSourceHeader_response_from_proto(message) ==
    Ok(SwitchSourceHeaderResult(message.target_file))

response_from_proto(kind, message) ==
    CASE kind = "ExpandMacro" -> ExpandMacro_response_from_proto(message)
      [] kind = "OpenDocs" -> OpenDocs_response_from_proto(message)
      [] kind = "SwitchSourceHeader" -> SwitchSourceHeader_response_from_proto(message)

\* ------------------------------------------------------------------- state
VARIABLES
    buffer,   \* the text buffer the commands address: [remote_id, text]
    revs,     \* the buffer's revisions so far, oldest first; the last is current
    history,  \* history[r] is the insertion that turned revs[r] into revs[r+1]
    cmd,      \* per command in flight: where its exchange stands, and its data
    crashed   \* "no", or the place of the panic that took the process down

vars == << buffer, revs, history, cmd, crashed >>

Cmds == DOMAIN cmd
Rev == Len(revs)
BufferAt(r) == [remote_id |-> buffer.remote_id, text |-> revs[r]]

Idle == [pc |-> "idle"]

InitWith(n) ==
    /\ buffer \in InitialBuffers
    /\ revs = << buffer.text >>
    /\ history = << >>
    /\ cmd = [c \in 1..n |-> Idle]
    /\ crashed = "no"

\* One command in flight.
Init == InitWith(1)
\* Several commands in flight at once.
InitConcurrent == InitWith(NumCmds)

\* What an untrusted or damaged peer request may carry in place of the
\* position to_proto wrote: nothing, a bias outside proto::Bias, the
\* timestamp of an insertion the buffer never saw, an anchor of another buffer.
GarbagePositions(position) ==
    { None,
      Some([position.val EXCEPT !.bias = 2]),
      Some([position.val EXCEPT !.timestamp = 1000]),
      Some([position.val EXCEPT !.buffer_id =
              CHOOSE id \in BufferIds : id # position.val.buffer_id]) }

\* A user edit: some text is inserted somewhere in the buffer.
InsertText ==
    /\ crashed = "no"
    /\ Len(history) < MaxEdits
    /\ \E at \in 0..Len(buffer.text), s \in InsertTexts :
          LET text == InsertAt(buffer.text, at, s)
          IN  /\ buffer' = [buffer EXCEPT !.text = text]
              /\ revs' = Append(revs, text)
              /\ history' = Append(history, [at |-> at, len |-> Len(s)])
    /\ UNCHANGED << cmd, crashed >>

\* A caller constructs a command at a point of the current text.
Construct(c) ==
    /\ crashed = "no"
    /\ cmd[c].pc = "idle"
    /\ \E command \in Commands(buffer.text) :
          cmd' = [cmd EXCEPT ![c] =
                    [ pc |-> "constructed", command |-> command,
                      issued_rev |-> Rev ]]
    /\ UNCHANGED << buffer, revs, history, crashed >>

\* The host dispatches a command to the language server: the caller's own
\* command (host path) or the one from_proto rebuilt (guest path).
ToLsp(c) ==
    /\ crashed = "no"
    /\ cmd[c].pc \in {"constructed", "reconstructed"}
    /\ \E path \in Paths :
          LET remote == cmd[c].pc = "reconstructed"
              self == IF remote THEN cmd[c].host_command ELSE cmd[c].command
              request == to_lsp(self, path)
              base == [ origin |-> IF remote THEN "remote" ELSE "local",
                        path |-> path, lsp_rev |-> Rev ] @@ cmd[c]
          IN  CASE request.tag = "Ok" ->
                      /\ cmd' = [cmd EXCEPT ![c] =
                                   [ pc |-> "requested",
                                     request |-> request.val ] @@ base]
                      /\ UNCHANGED crashed
                [] request.tag = "Err" ->
                      /\ cmd' = [cmd EXCEPT ![c] =
                                   [ pc |-> "failed", failed_in |-> "to_lsp",
                                     error |-> request.err ] @@ base]
                      /\ UNCHANGED crashed
                [] request.tag = "Panic" ->
                      /\ cmd' = [cmd EXCEPT ![c] =
                                   [ pc |-> "aborted",
                                     failed_in |-> "to_lsp" ] @@ base]
                      /\ crashed' = request.at
    /\ UNCHANGED << buffer, revs, history >>

\* A guest dispatches its command to the host as a peer request.
ToProto(c) ==
    /\ crashed = "no"
    /\ cmd[c].pc = "constructed"
    /\ \E project_id \in ProjectIds :
          cmd' = [cmd EXCEPT ![c] =
                    [ pc |-> "sent", origin |-> "remote",
                      project_id |-> project_id,
                      message |-> to_proto(cmd[c].command, project_id, buffer),
                      sent_rev |-> Rev, tampered |-> FALSE ] @@ cmd[c]]
    /\ UNCHANGED << buffer, revs, history, crashed >>

\* The peer request reaches the host damaged.
CorruptRequest(c) ==
    /\ crashed = "no"
    /\ cmd[c].pc = "sent"
    /\ ~cmd[c].tampered
    /\ \/ /\ HasPosition(cmd[c].command.kind)
          /\ \E g \in GarbagePositions(cmd[c].message.position) :
                cmd' = [cmd EXCEPT ![c].message.position = g,
                                   ![c].tampered = TRUE]
       \/ cmd' = [cmd EXCEPT ![c].message.buffer_id = 0,
                             ![c].tampered = TRUE]
    /\ UNCHANGED << buffer, revs, history, crashed >>

\* The host handles a peer request: it finds the buffer with
\* buffer_id_from_proto and rebuilds the command with from_proto.
Receive(c) ==
    /\ crashed = "no"
    /\ cmd[c].pc = "sent"
    /\ LET routed == buffer_id_from_proto(cmd[c].message)
           base == [recv_rev |-> Rev] @@ cmd[c]
       IN  IF routed.tag # "Ok"
           THEN /\ cmd' = [cmd EXCEPT ![c] =
                             [ pc |-> "failed",
                               failed_in |-> "buffer_id_from_proto",
                               error |-> routed.err ] @@ base]
                /\ UNCHANGED crashed
           ELSE \E r \in from_proto(cmd[c].message, buffer) :
                  CASE r.tag = "Ok" ->
                          /\ cmd' = [cmd EXCEPT ![c] =
                                       [ pc |-> "reconstructed",
                                         routed_to |-> routed.val,
                                         host_command |-> r.val ] @@ base]
                          /\ UNCHANGED crashed
                    [] r.tag = "Err" ->
                          /\ cmd' = [cmd EXCEPT ![c] =
                                       [ pc |-> "failed",
                                         failed_in |-> "from_proto",
                                         error |-> r.err ] @@ base]
                          /\ UNCHANGED crashed
                    [] r.tag = "Panic" ->
                          /\ cmd' = [cmd EXCEPT ![c] =
                                       [ pc |-> "aborted",
                                         failed_in |-> "from_proto" ] @@ base]
                          /\ crashed' = r.at
    /\ UNCHANGED << buffer, revs, history >>

\* The language server answers (or has nothing to say); the host turns the
\* answer into the response with response_from_lsp and, for a guest's
\* command, into the peer response with response_to_proto.
ServerReply(c) ==
    /\ crashed = "no"
    /\ cmd[c].pc = "requested"
    /\ \E reply \in Replies(cmd[c].command.kind) :
          LET kind == cmd[c].command.kind
              response == response_from_lsp(kind, reply)
              base == [reply |-> reply, response |-> response] @@ cmd[c]
          IN  IF cmd[c].origin = "local"
              THEN cmd' = [cmd EXCEPT ![c] =
                             [pc |-> "done", result |-> response] @@ base]
              ELSE cmd' = [cmd EXCEPT ![c] =
                             [ pc |-> "responded",
                               peer_response |->
                                   response_to_proto(kind, response.val) ]
                                 @@ base]
    /\ UNCHANGED << buffer, revs, history, crashed >>

\* The guest reads the peer response with response_from_proto.
PeerResponse(c) ==
    /\ crashed = "no"
    /\ cmd[c].pc = "responded"
    /\ cmd' = [cmd EXCEPT ![c] =
                 [ pc |-> "done",
                   result |-> response_from_proto(cmd[c].command.kind,
                                                  cmd[c].peer_response) ]
                   @@ cmd[c]]
    /\ UNCHANGED << buffer, revs, history, crashed >>

ConstructAny == \E c \in Cmds : Construct(c)
ToLspAny == \E c \in Cmds : ToLsp(c)
ToProtoAny == \E c \in Cmds : ToProto(c)
CorruptRequestAny == \E c \in Cmds : CorruptRequest(c)
ReceiveAny == \E c \in Cmds : Receive(c)
ServerReplyAny == \E c \in Cmds : ServerReply(c)
PeerResponseAny == \E c \in Cmds : PeerResponse(c)

Step ==
    \/ ConstructAny
    \/ ToLspAny
    \/ ToProtoAny
    \/ CorruptRequestAny
    \/ ReceiveAny
    \/ ServerReplyAny
    \/ PeerResponseAny

Next == InsertText \/ Step

Spec == Init /\ [][Next]_vars

\* Several commands in flight against a buffer that is not edited meanwhile.
NextConcurrent == Step

SpecConcurrent == InitConcurrent /\ [][NextConcurrent]_vars

\* ------------------------------------------------------- helpers of claims
Has(c, f) == f \in DOMAIN cmd[c]
KindOf(c) == cmd[c].command.kind
Positioned(c) == Has(c, "command") /\ HasPosition(KindOf(c))

\* Where an offset of revision `from` lies in revision `to`: every insertion
\* strictly before it moves it right by the inserted length; an insertion at
\* it or after it leaves it alone.
RECURSIVE Shifted(_, _, _)
Shifted(o, from, to) ==
    IF from >= to THEN o
    ELSE Shifted(IF history[from].at < o THEN o + history[from].len ELSE o,
                 from + 1, to)

\* The point the untouched peer request of c designates in revision r.
MessagePoint(c, r) ==
    OffsetToPoint(revs[r],
        AnchorOffset(BufferAt(r), deserialize_anchor(cmd[c].message.position.val).val))

\* The peer request of c is the one to_proto wrote.
Untouched(c) == Has(c, "message") /\ ~cmd[c].tampered

is_empty(kind, r) ==
    CASE kind = "ExpandMacro" -> ExpandedMacro_is_empty(r)
      [] kind = "OpenDocs" -> DocsUrls_is_empty(r)
      [] kind = "SwitchSourceHeader" -> r.f0 = ""

Default(kind) ==
    CASE kind = "ExpandMacro" -> ExpandedMacro_default
      [] kind = "OpenDocs" -> DocsUrls_default
      [] kind = "SwitchSourceHeader" -> SwitchSourceHeaderResult_default

\* ------------------------------------------------------------------ claims

\* C1: for each command and every server reply, present or absent, the
\* response the caller gets at the end of the guest path (through
\* response_to_proto and response_from_proto) equals the response of the host
\* path, response_from_lsp(reply); a present reply arrives with its fields
\* unchanged on both paths.
C1_GuestPathEqualsHostPath ==
    \A c \in Cmds :
        cmd[c].pc = "done" =>
            /\ cmd[c].result = response_from_lsp(KindOf(c), cmd[c].reply)
            /\ cmd[c].result.tag = "Ok"
            /\ cmd[c].reply.some => cmd[c].result.val = cmd[c].reply.val

C1_Witness ==
    \E c \in Cmds :
        /\ cmd[c].pc = "done"
        /\ cmd[c].origin = "remote"
        /\ KindOf(c) = "OpenDocs"
        /\ cmd[c].reply.some
        /\ cmd[c].reply.val.web.some
        /\ ~cmd[c].reply.val.local.some

C3_EditsTrackedInFlight ==
    \A c \in Cmds :
        ( /\ Positioned(c) /\ Untouched(c) /\ Has(c, "recv_rev")
          /\ cmd[c].command.position \in ValidPoints(revs[cmd[c].sent_rev]) ) =>
            /\ Has(c, "host_command")
            /\ cmd[c].host_command.kind = KindOf(c)
            /\ cmd[c].host_command.position \in ValidPoints(revs[cmd[c].recv_rev])
            /\ PointToOffset(revs[cmd[c].recv_rev], cmd[c].host_command.position)
                 = Shifted(PointToOffset(revs[cmd[c].sent_rev],
                                         cmd[c].command.position),
                           cmd[c].sent_rev, cmd[c].recv_rev)

\* A request was rebuilt after an insertion strictly before its position.
C3_Witness ==
    \E c \in Cmds :
        /\ Positioned(c) /\ Untouched(c) /\ Has(c, "host_command")
        /\ cmd[c].command.position \in ValidPoints(revs[cmd[c].sent_rev])
        /\ cmd[c].recv_rev > cmd[c].sent_rev
        /\ LET o == PointToOffset(revs[cmd[c].sent_rev], cmd[c].command.position)
           IN  history[cmd[c].sent_rev].at < o

\* C4: peer round trip.  For ExpandMacro and OpenDocs and every point P of
\* the buffer, to_proto followed by from_proto against the same buffer at the
\* same revision succeeds and rebuilds a command whose position is P.
C4_PeerRoundTrip ==
    \A c \in Cmds :
        ( /\ Positioned(c) /\ Untouched(c) /\ Has(c, "recv_rev")
          /\ cmd[c].recv_rev = cmd[c].sent_rev
          /\ cmd[c].command.position \in ValidPoints(revs[cmd[c].sent_rev]) ) =>
            /\ Has(c, "host_command")
            /\ cmd[c].host_command = cmd[c].command

\* A round trip of a point that is not the start of the buffer, in a buffer
\* that was edited before the command was sent.
C4_Witness ==
    \E c \in Cmds :
        /\ Positioned(c) /\ Untouched(c) /\ Has(c, "host_command")
        /\ cmd[c].recv_rev = cmd[c].sent_rev
        /\ cmd[c].sent_rev > 1
        /\ cmd[c].command.position.row > 0
        /\ cmd[c].command.position.column > 0

\* The position of a peer request cannot be resolved against the buffer:
\* the field is absent, its encoding is corrupt, or the anchor names an
\* insertion the buffer does not have or another buffer.
Unresolvable(message, b) ==
    \/ ~message.position.some
    \/ ~deserialize_anchor(message.position.val).some
    \/ ~can_resolve(b, deserialize_anchor(message.position.val).val)

\* C5: a peer request for ExpandMacro or OpenDocs whose position cannot be
\* resolved against the target buffer makes from_proto return the recoverable
\* "invalid position" failure: no crash, no command, no wrong position.
C5_InvalidPositionRejected ==
    \A c \in Cmds :
        ( /\ Positioned(c) /\ Has(c, "recv_rev")
          /\ buffer_id_from_proto(cmd[c].message).tag = "Ok"
          /\ Unresolvable(cmd[c].message, BufferAt(cmd[c].recv_rev)) ) =>
            /\ crashed = "no"
            /\ cmd[c].pc = "failed"
            /\ cmd[c].failed_in = "from_proto"
            /\ cmd[c].error = "invalid position"
            /\ ~Has(c, "host_command")

\* C6: when the file path cannot be converted to a document identifier,
\* to_lsp of every command returns the recoverable InvalidPath error to its
\* caller instead of aborting, before any request to the server exists.
C6_InvalidPathRecoverable ==
    \A c \in Cmds :
        ( Has(c, "path") /\ Url_from_file_path(cmd[c].path).tag # "Ok" ) =>
            /\ crashed = "no"
            /\ cmd[c].pc = "failed"
            /\ cmd[c].failed_in = "to_lsp"
            /\ cmd[c].error = "InvalidPath"
            /\ ~Has(c, "request")

\* C7: empty-response normalization.  For each command, response_from_lsp
\* given an absent server response succeeds and returns the response type's
\* empty value, for which is_empty reports true.
C7_AbsentReplyIsEmptyResponse ==
    \A c \in Cmds :
        ( Has(c, "reply") /\ ~cmd[c].reply.some ) =>
            /\ cmd[c].response.tag = "Ok"
            /\ cmd[c].response.val = Default(KindOf(c))
            /\ is_empty(KindOf(c), cmd[c].response.val)
            /\ cmd[c].pc = "done" => cmd[c].result = cmd[c].response

C7_Witness ==
    \E c \in Cmds :
        /\ Has(c, "reply") /\ ~cmd[c].reply.some
        /\ KindOf(c) = "ExpandMacro"
        /\ cmd[c].pc = "done"

\* The next step of command d's exchange.
StepOf(d) ==
    \/ Construct(d)
    \/ ToLsp(d)
    \/ ToProto(d)
    \/ Receive(d)
    \/ ServerReply(d)
    \/ PeerResponse(d)

\* C8: failure isolation.  The failure of one translation (an unconvertible
\* path in to_lsp, an invalid position in from_proto) is not fatal to the
\* process and costs only that command: every sibling still in flight can
\* take the next step of its exchange.
C8_FailureIsolation ==
    \A c \in Cmds :
        cmd[c].pc \in {"failed", "aborted"} =>
            \A d \in Cmds \ {c} :
                cmd[d].pc \notin {"idle", "done", "failed", "aborted"} =>
                    /\ crashed = "no"
                    /\ ENABLED StepOf(d)

\* C9: routing.  The peer request built by to_proto carries exactly the
\* project id it was given and the identifier of the buffer, and
\* buffer_id_from_proto applied to the message alone succeeds and returns the
\* identifier of the buffer the request was built from.
C9_RequestRoutesToItsBuffer ==
    \A c \in Cmds :
        Untouched(c) =>
            /\ cmd[c].message.project_id = cmd[c].project_id
            /\ cmd[c].message.buffer_id = buffer.remote_id
            /\ buffer_id_from_proto(cmd[c].message) = Ok(buffer.remote_id)
            /\ Has(c, "routed_to") => cmd[c].routed_to = buffer.remote_id

C9_Witness ==
    \E c \in Cmds :
        /\ Untouched(c)
        /\ Has(c, "routed_to")
        /\ cmd[c].project_id # buffer.remote_id

\* C10: SwitchSourceHeader is a zero-parameter command.  Its peer request
\* carries the addressing only and no position field, from_proto succeeds for
\* every such request whatever the revision of the buffer, and no edit
\* between to_proto and from_proto changes the rebuilt command.
C10_SwitchSourceHeaderHasNoPosition ==
    \A c \in Cmds :
        ( Has(c, "message") /\ KindOf(c) = "SwitchSourceHeader" ) =>
            /\ DOMAIN cmd[c].message = {"type", "project_id", "buffer_id"}
            /\ from_proto(cmd[c].message, buffer) = { Ok(SwitchSourceHeader) }
            /\ ( Has(c, "recv_rev")
                 /\ buffer_id_from_proto(cmd[c].message).tag = "Ok" ) =>
                  /\ Has(c, "host_command")
                  /\ cmd[c].host_command = cmd[c].command

\* A source/header switch rebuilt after the buffer was edited in flight.
C10_Witness ==
    \E c \in Cmds :
        /\ Has(c, "host_command")
        /\ KindOf(c) = "SwitchSourceHeader"
        /\ cmd[c].recv_rev > cmd[c].sent_rev
====
